---- MODULE Spec2Model ----
(***************************************************************************)
(* pybroom: tidy / glance / augment on fit results and on lists and dicts  *)
(* of fit results.  The three generic functions dispatch on the runtime    *)
(* type of their first argument (functools.singledispatch); lists and      *)
(* dicts are handled by _multi_dataframe, which recurses, stamps a "key"   *)
(* column on each sub-table and concatenates the sub-tables.               *)
(*                                                                         *)
(* A call is modelled as one step: the inputs are drawn in Init, and the   *)
(* actions Tidy, Glance and Augment compute the value the call returns or  *)
(* the exception it raises.                                                *)
(***************************************************************************)
EXTENDS Integers, Sequences, FiniteSets, TLC

VARIABLES results, var_names, kwargs, registry, func, out, pc

vars == <<results, var_names, kwargs, registry, func, out, pc>>

(***************************************************************************)
(* Bounds of the model.                                                    *)
(***************************************************************************)
\* longest list / dict / tuple given to a call
MaxLen == 2
\* longest var_names list given to a call
MaxNames == 2

(***************************************************************************)
(* Small helpers on sequences.                                             *)
(***************************************************************************)
Range(s) == {s[i] : i \in 1..Len(s)}

Min(S) == CHOOSE x \in S : \A y \in S : x <= y

SeqsUpTo(S, n) == UNION {[1..k -> S] : k \in 0..n}

InjSeqsUpTo(S, n) == {s \in SeqsUpTo(S, n) : \A i, j \in 1..Len(s) : i # j => s[i] # s[j]}

\* s without its elements that occur earlier in s or in `seen`
RECURSIVE Fresh(_, _)
Fresh(s, seen) ==
    IF s = <<>> THEN <<>>
    ELSE IF Head(s) \in seen THEN Fresh(Tail(s), seen)
         ELSE <<Head(s)>> \o Fresh(Tail(s), seen \cup {Head(s)})

\* the sequence s with every element computed once
Tuple(s) == s \o <<>>

RECURSIVE Flatten(_)
Flatten(ss) == IF ss = <<>> THEN <<>> ELSE Head(ss) \o Flatten(Tail(ss))

(***************************************************************************)
(* Cells of a DataFrame.  Every cell is a record of one shape:             *)
(*   k = "int": the integer n (a list position from enumerate)             *)
(*   k = "str": the string s (a dict key)                                  *)
(*   k = "val": the value a leaf extractor read for column c, row n, of    *)
(*              the fit result named s                                     *)
(*   k = "nan": a missing value                                            *)
(***************************************************************************)
IntCell(i) == [k |-> "int", s |-> "", c |-> "", n |-> i]
StrCell(x) == [k |-> "str", s |-> x, c |-> "", n |-> 0]
ValCell(id, col, i) == [k |-> "val", s |-> id, c |-> col, n |-> i]
NaN == [k |-> "nan", s |-> "", c |-> "", n |-> 0]

(***************************************************************************)
(* A DataFrame: cols is the column index (ordered, unique names), rows the *)
(* rows in order (each a function from the column names to cells), cats    *)
(* the categorical columns with their ordered categories.                  *)
(***************************************************************************)
NoCats == [c \in {} |-> <<>>]

DataFrame(cols, rows) == [cols |-> cols, rows |-> rows, cats |-> NoCats]

EmptyFrame == DataFrame(<<>>, <<>>)

\* pd.DataFrame(index=range(n), columns=cols) filled with the values read from
\* the result named id, but for the cells <<column, row>> of `missing`
FrameOf(id, cols, n, missing) ==
    DataFrame(cols, [i \in 1..n |-> [c \in Range(cols) |->
        IF <<c, i - 1>> \in missing THEN NaN ELSE ValCell(id, c, i - 1)]])

\* df[name] = value  (a scalar, broadcast to every row; an existing column
\* of that name is overwritten in place, a new one is appended)
SetItem(df, name, value) ==
    [cols |-> IF name \in Range(df.cols) THEN df.cols ELSE Append(df.cols, name),
     rows |-> [i \in 1..Len(df.rows) |->
                 [c \in Range(df.cols) \cup {name} |->
                     IF c = name THEN value ELSE df.rows[i][c]]],
     cats |-> [c \in (DOMAIN df.cats) \ {name} |-> df.cats[c]]]

\* the values of column name, in row order
Column(df, name) == [i \in 1..Len(df.rows) |-> df.rows[i][name]]

(***************************************************************************)
(* What a call gives back: a DataFrame, None, or a raised exception.       *)
(* arg tells the exceptions of one class apart: the type named by a        *)
(* NotImplementedError, the argument a ValueError or TypeError is about.   *)
(***************************************************************************)
Returns(df) == [kind |-> "frame", exc |-> "", arg |-> "", df |-> df]
ReturnsNone == [kind |-> "none", exc |-> "", arg |-> "", df |-> EmptyFrame]
Raises(exc, arg) == [kind |-> "raise", exc |-> exc, arg |-> arg, df |-> EmptyFrame]
NotCalled == [kind |-> "pending", exc |-> "", arg |-> "", df |-> EmptyFrame]

(***************************************************************************)
(* pandas primitives used by _multi_dataframe.                             *)
(***************************************************************************)
\* Python's order on the strings used as dict keys in this model
SortedStrings == <<"A", "B", "cost", "fun", "nit", "status", "success", "x">>

StrRank(x) == Min({i \in 1..Len(SortedStrings) : SortedStrings[i] = x})

\* a < b for two cells of one kind (ints by value, strings as Python orders them)
CellLess(a, b) ==
    IF a.k = "int" THEN a.n < b.n ELSE StrRank(a.s) < StrRank(b.s)

\* the elements of the finite set S in ascending order
RECURSIVE SortCells(_)
SortCells(S) ==
    IF S = {} THEN <<>>
    ELSE LET m == CHOOSE a \in S : \A b \in S \ {a} : CellLess(a, b)
         IN  <<m>> \o SortCells(S \ {m})

\* Faulty variant of Categories: the unique values in order of appearance.
CategoriesAsSeen(values) == Fresh(values, {})

\* pd.Categorical(values, ordered=True).categories: the unique values, sorted
\* (the keys of one dict are all strings here, so they can always be ordered)
Categories(values) == SortCells(Range(values))

\* df.assign(name = pd.Categorical(df[name], ordered=True))
AssignCategorical(df, name) ==
    [df EXCEPT !.cats = [c \in (DOMAIN df.cats) \cup {name} |->
                            IF c = name THEN Categories(Column(df, name))
                            ELSE df.cats[c]]]

\* Faulty variant of Concat: the first frame is left out of the result.
ConcatSkipsFirst(frames) ==
    LET kept == IF Len(frames) > 1 THEN Tail(frames) ELSE frames
        cols == Fresh(Flatten([i \in 1..Len(kept) |-> kept[i].cols]), {})
        fill(row) == [c \in Range(cols) |-> IF c \in DOMAIN row THEN row[c] ELSE NaN]
        part(i) == [j \in 1..Len(kept[i].rows) |-> fill(kept[i].rows[j])]
    IN  [cols |-> cols,
         rows |-> Flatten([i \in 1..Len(kept) |-> part(i)]),
         cats |-> NoCats]

\* Faulty variant of Concat: only the columns that every frame has are kept
\* (join="inner").
ConcatInner(frames) ==
    LET all == Fresh(Flatten([i \in 1..Len(frames) |-> frames[i].cols]), {})
        common == {c \in Range(all) : \A i \in 1..Len(frames) : c \in Range(frames[i].cols)}
        cols == Fresh(all, Range(all) \ common)
        part(i) == [j \in 1..Len(frames[i].rows) |-> [c \in common |-> frames[i].rows[j][c]]]
    IN  [cols |-> cols,
         rows |-> Flatten([i \in 1..Len(frames) |-> part(i)]),
         cats |-> NoCats]

\* pd.concat(frames, ignore_index=True) of one or more frames: the rows of all
\* frames in order; the columns are the union of the frames' columns in order of
\* first appearance, cells of a column a frame lacks are NaN; a column stays
\* categorical when it is categorical with the same categories in every frame
Concat(frames) ==
    LET cols == Fresh(Flatten([i \in 1..Len(frames) |-> frames[i].cols]), {})
        fill(row) == [c \in Range(cols) |-> IF c \in DOMAIN row THEN row[c] ELSE NaN]
        part(i) == [j \in 1..Len(frames[i].rows) |-> fill(frames[i].rows[j])]
        same == {c \in Range(cols) : \A i \in 1..Len(frames) :
                    /\ c \in DOMAIN frames[i].cats
                    /\ frames[i].cats[c] = frames[1].cats[c]}
    IN  [cols |-> cols,
         rows |-> Flatten([i \in 1..Len(frames) |-> part(i)]),
         cats |-> [c \in same |-> frames[1].cats[c]]]

\* Faulty variant of pd_concat: no frames give an empty frame.
ConcatNothingIsEmpty(frames) ==
    IF Len(frames) = 0 THEN Returns(EmptyFrame) ELSE Returns(Concat(frames))

\* pd.concat(d, ignore_index=True) as a call: it raises ValueError ("No
\* objects to concatenate") when d is empty
pd_concat(frames) ==
    IF Len(frames) = 0 THEN Raises("ValueError", "concat") ELSE Returns(Concat(frames))

(***************************************************************************)
(* Runtime types.  MRO(t) is type(x).__mro__ for a value x of type t.      *)
(***************************************************************************)
MRO(t) ==
    CASE t = "OrderedDict" -> <<"OrderedDict", "dict", "object">>
      [] t = "OptimizeResult" -> <<"OptimizeResult", "dict", "object">>
      [] t = "ModelResult" -> <<"ModelResult", "Minimizer", "object">>
      [] t = "RegressionResultsWrapper" ->
             <<"RegressionResultsWrapper", "ResultsWrapper", "object">>
      [] OTHER -> <<t, "object">>

\* isinstance(x, dict)
IsInstanceDict(x) == "dict" \in Range(MRO(x.type))

(***************************************************************************)
(* The singledispatch registries of tidy, glance and augment after the     *)
(* package is imported (build_registries imports every implementation      *)
(* module; each @singledispatch function is its own default, registered    *)
(* for object).                                                            *)
(***************************************************************************)
Registry ==
    [tidy |->
        [object |-> "tidy",
         list |-> "_tidy_multi_dataframe", dict |-> "_tidy_multi_dataframe",
         ModelResult |-> "tidy_lmfit", MinimizerResult |-> "tidy_lmfit",
         OptimizeResult |-> "tidy_optimize",
         RegressionResultsWrapper |-> "tidy_statsmodels"],
     glance |->
        [object |-> "glance",
         list |-> "_glance_multi_dataframe", dict |-> "_glance_multi_dataframe",
         ModelResult |-> "glance_lmfit", MinimizerResult |-> "glance_lmfit",
         OptimizeResult |-> "glance_optimize",
         RegressionResultsWrapper |-> "glance_statsmodels"],
     augment |->
        [object |-> "augment",
         list |-> "_augment_multi_dataframe", dict |-> "_augment_multi_dataframe",
         ModelResult |-> "augment_lmfit", MinimizerResult |-> "augment_lmfit",
         RegressionResultsWrapper |-> "augment_statsmodels"]]

\* Faulty variant of Dispatch: a value that is a dict or a list is given to the
\* implementation registered for dict or list, whatever its own type.
DispatchContainerFirst(reg, op, t) ==
    LET hits == {i \in 1..Len(MRO(t)) : MRO(t)[i] \in DOMAIN reg[op]}
        coll == {i \in hits : MRO(t)[i] \in {"list", "dict"}}
    IN  reg[op][MRO(t)[Min(IF coll # {} THEN coll ELSE hits)]]

\* singledispatch: the implementation registered for the first class of the
\* MRO of the argument's type that has one
Dispatch(reg, op, t) ==
    LET hits == {i \in 1..Len(MRO(t)) : MRO(t)[i] \in DOMAIN reg[op]}
    IN  reg[op][MRO(t)[Min(hits)]]

(***************************************************************************)
(* Leaf extractors.  A fit result is a record: type is its runtime type,   *)
(* id names it, the other fields are the attributes the extractors read.   *)
(***************************************************************************)
\* tidy_lmfit(result): one row per parameter of result.params (the frame is
\* created with result.nvarys rows and enlarged by d.loc[i, p] = ...)
tidy_lmfit(result) ==
    LET params_attrs == <<"name", "value", "min", "max", "vary", "expr", "stderr">>
        columns == params_attrs \o <<"init_value">>
        n == IF result.nvarys > result.nparams THEN result.nvarys ELSE result.nparams
        \* rows beyond the parameters stay empty; so does init_value of a
        \* parameter that is not in result.init_values
        missing == {<<c, i>> \in Range(columns) \X (0..(n - 1)) :
                       i >= result.nparams
                       \/ (c = "init_value" /\ i \notin result.init_values)}
    IN  Returns(FrameOf(result.id, columns, n, missing))

\* glance_lmfit(result): one row of fit statistics; the column model only
\* when the result has a model, one more column per entry of result.kws
glance_lmfit(result) ==
    LET stats == <<"method", "num_params", "num_data_points", "chisqr", "redchi",
                   "AIC", "BIC", "num_func_eval", "success", "message">>
        columns == (IF result.has_model THEN <<"model">> ELSE <<>>) \o stats
                       \o result.kws
    IN  Returns(FrameOf(result.id, columns, 1, {}))

\* augment_lmfit(result): one row per data point; one more column per
\* component when the model is composite
augment_lmfit(result) ==
    LET columns == <<"x", "data", "best_fit", "residual">>
        comps == IF Len(result.components) > 1 THEN result.components ELSE <<>>
    IN  IF result.independent_vars # 1
        THEN Raises("NotImplementedError", "independent_vars")
        ELSE Returns(FrameOf(result.id, columns \o comps, result.ndata, {}))

\* glance_optimize(result): one row, a column for each listed attribute the
\* result has ('nit' 'status' is one string literal in the list), plus fun
\* when it is a scalar
glance_optimize(result) ==
    LET attr_names_all == <<"success", "cost", "optimality", "nfev", "njev",
                            "nitstatus", "message">>
        has == {i \in 1..Len(attr_names_all) : attr_names_all[i] \in Range(result.keys)}
        listed == [i \in 1..Cardinality(has) |->
                     attr_names_all[CHOOSE j \in has :
                                       Cardinality({m \in has : m < j}) = i - 1]]
        attr_names == IF "fun" \in Range(result.keys) /\ result.fun_size = 1
                      THEN Append(listed, "fun") ELSE listed
    IN  Returns(FrameOf(result.id, attr_names, 1, {}))

\* tidy_statsmodels(result): the body is `pass`
tidy_statsmodels(result) == ReturnsNone

\* glance_statsmodels(result): one row of regression statistics
glance_statsmodels(result) ==
    LET columns == <<"r_squared", "adj_r_squared", "statistic", "p_value", "df",
                     "df_residual", "aic", "bic">>
    IN  Returns(FrameOf(result.id, columns, 1, {}))

\* augment_statsmodels(result): the response, the regressors without the
\* intercept, and the fitted values, one row per observation
augment_statsmodels(result) ==
    LET keep == {i \in 1..Len(result.exog_names) : result.exog_names[i] # "Intercept"}
        X == [i \in 1..Cardinality(keep) |->
                result.exog_names[CHOOSE j \in keep :
                                     Cardinality({m \in keep : m < j}) = i - 1]]
        columns == <<result.endog_names>> \o X \o <<"_fitted", "_se_fit", "_resid">>
        missing == {"_se_fit"} \X (0..(result.nobs - 1))
    IN  IF "Intercept" \notin Range(result.exog_names)
        THEN Raises("KeyError", "Intercept")
        ELSE Returns(FrameOf(result.id, columns, result.nobs, missing))

\* tidy_optimize(result, param_names, **kwargs), once param_names is bound:
\* kw is the set of names in **kwargs
tidy_optimize(result, kw) ==
    IF "param_names" \notin kw
    THEN Raises("ValueError", "param_names")
    ELSE \* dict_to_tidy(params._asdict(), **kwargs) takes no param_names
         Raises("TypeError", "arguments")

(***************************************************************************)
(* var_names as the caller gives it: a string s (str = TRUE) or a list of  *)
(* strings (str = FALSE).                                                  *)
(***************************************************************************)
StrNames(x) == [str |-> TRUE, s |-> x, list |-> <<>>]
ListNames(l) == [str |-> FALSE, s |-> "", list |-> l]

\* the default of the parameter var_names ('key')
DefaultVarNames == StrNames("key")

\* len(var_names) == 0
IsEmptyNames(vn) == IF vn.str THEN vn.s = "" ELSE vn.list = <<>>

\* Faulty variant of _as_list_of_strings_copy: a list is returned as it is,
\* without .copy().
AsListOfStringsNoCopy(vn) ==
    [list |-> IF vn.str THEN <<vn.s>> ELSE vn.list,
     obj |-> IF vn.str THEN "new" ELSE "arg"]

\* _as_list_of_strings_copy(var_names): the names as a list; obj tells which
\* object is returned, the argument itself ("arg") or a new list ("new"):
\* var_names.copy() is always a new list
_as_list_of_strings_copy(vn) ==
    [list |-> IF vn.str THEN <<vn.s>> ELSE vn.list, obj |-> "new"]

\* Faulty variant of _as_odict_copy: positions are counted from 1 and the
\* items of a dict are taken in reverse order.
AsOdictFromOne(res) ==
    [items |-> [i \in 1..Len(res.elems) |->
        IF "dict" \in Range(MRO(res.type))
        THEN [key |-> StrCell(res.keys[Len(res.elems) + 1 - i]),
              val |-> res.elems[Len(res.elems) + 1 - i]]
        ELSE [key |-> IntCell(i), val |-> res.elems[i]]],
     obj |-> "new"]

\* _as_odict_copy(results): the (key, value) pairs of a dict in insertion
\* order, the (position, element) pairs of any other iterable; obj tells
\* which object is returned: OrderedDict(...) is always a new one, whose
\* values are the caller's elements themselves
_as_odict_copy(res) ==
    [items |-> [i \in 1..Len(res.elems) |->
        [key |-> IF IsInstanceDict(res) THEN StrCell(res.keys[i]) ELSE IntCell(i - 1),
         val |-> res.elems[i]]],
     obj |-> "new"]

\* Faulty variant of PopFirst: the last name is taken (var_names.pop()).
PopLast(names) ==
    [popped |-> names[Len(names)], left |-> SubSeq(names, 1, Len(names) - 1)]

\* var_names.pop(0) on a non-empty list: the name taken and the names left
PopFirst(names) == [popped |-> Head(names), left |-> Tail(names)]

\* Faulty variant of IsListOrDict: every element is recursed into with the
\* names that are left.
NamesToEveryElement(res) == TRUE

\* Faulty variant of IsListOrDict: only dicts are recognised.
IsDictOnly(res) == res.type = "dict"

\* type(res) in {list, dict}
IsListOrDict(res) == res.type \in {"list", "dict"}

(***************************************************************************)
(* The generic functions.  Call(reg, op, res, given, vn, opts) is the call *)
(*   op(res, **opts)                  when given = "none"                  *)
(*   op(res, var_names=vn, **opts)    when given = "kw"                    *)
(*   op(res, vn, **opts)              when given = "pos"                   *)
(* under the registries reg: singledispatch picks the implementation from  *)
(* type(res) and calls it with the very same arguments.                    *)
(***************************************************************************)
\* Faulty variant of default_impl: a value of an unsupported type gives an
\* empty table.
DefaultGivesEmptyTable(result) == Returns(EmptyFrame)

\* the body of tidy, glance and augment themselves, the implementation for
\* object: raise NotImplementedError(msg % type(result))
default_impl(result) == Raises("NotImplementedError", result.type)

\* What a call leaves behind: ret is what it returns or raises, results and
\* var_names are the caller's argument objects as they are after the call.
Outcome(ret, res, vn) == [ret |-> ret, results |-> res, var_names |-> vn]

\* a table stored as a value of a container (d[key] = func(...))
AsElems(frames) == [i \in 1..Len(frames) |-> [type |-> "DataFrame", df |-> frames[i]]]

RECURSIVE Exec(_, _, _, _, _, _), _multi_dataframe(_, _, _, _, _),
          ForEach(_, _, _, _, _, _, _)

\* The loop over d.items() from item i on.  st.var_names is the list
\* var_names (after the pop), st.frames the tables stored in d so far,
\* st.elems the visited elements as the calls left them, st.ret the error
\* that stopped the loop.
ForEach(reg, op, opts, var_name, items, i, st) ==
    IF i > Len(items) THEN st
    ELSE
    LET res == items[i].val
        o == IF IsListOrDict(res)
             THEN Exec(reg, op, res, "pos", ListNames(st.var_names), opts)
             ELSE Exec(reg, op, res, "none", DefaultVarNames, opts)
        after == [st EXCEPT !.var_names = IF IsListOrDict(res) THEN o.var_names.list ELSE @,
                            !.elems = Append(@, o.results)]
    IN  IF o.ret.kind = "raise" THEN [after EXCEPT !.ret = o.ret]
        ELSE IF o.ret.kind = "none"
        THEN \* None cannot take the item assignment d[key][var_name] = key
             [after EXCEPT !.ret = Raises("TypeError", "NoneType")]
        ELSE ForEach(reg, op, opts, var_name, items, i + 1,
                     [after EXCEPT !.frames =
                          Append(@, SetItem(o.ret.df, var_name, items[i].key))])

_multi_dataframe(reg, op, res, vn, opts) ==
    IF IsEmptyNames(vn) THEN Outcome(Raises("ValueError", "var_names"), res, vn)
    ELSE
    LET d == _as_odict_copy(res)
        names == _as_list_of_strings_copy(vn)
        var_name == PopFirst(names.list).popped
        rest == PopFirst(names.list).left
        st == ForEach(reg, op, opts, var_name, d.items, 1,
                      [var_names |-> rest, frames |-> <<>>, elems |-> <<>>,
                       ret |-> NotCalled])
        ret == IF st.ret.kind = "raise" THEN st.ret
               ELSE LET cat == pd_concat(st.frames)
                    IN  IF cat.kind # "frame" THEN cat
                        ELSE IF IsInstanceDict(res)
                        THEN Returns(AssignCategorical(cat.df, var_name))
                        ELSE cat
        \* the elements not reached are as they were
        left == SubSeq(res.elems, Len(st.elems) + 1, Len(res.elems))
        \* the caller's container: its values are replaced by the tables only
        \* if d is the container itself
        res_after == IF d.obj = "arg"
                     THEN [res EXCEPT !.elems = AsElems(st.frames)
                                         \o SubSeq(res.elems, Len(st.frames) + 1, Len(res.elems))]
                     ELSE [res EXCEPT !.elems = st.elems \o left]
        \* the caller's var_names: it loses its first name only if the list
        \* popped is var_names itself
        vn_after == IF names.obj = "arg" THEN ListNames(st.var_names) ELSE vn
    IN  Outcome(ret, res_after, vn_after)

Exec(reg, op, res, given, vn, opts) ==
    LET impl == Dispatch(reg, op, res.type)
        \* the keyword arguments of the call
        keywords == opts \cup (IF given = "kw" THEN {"var_names"} ELSE {})
    IN  CASE impl \in {"tidy", "glance", "augment"} -> Outcome(default_impl(res), res, vn)
          [] impl \in {"_tidy_multi_dataframe", "_glance_multi_dataframe",
                       "_augment_multi_dataframe"} ->
                 IF given = "none"
                 THEN [_multi_dataframe(reg, op, res, DefaultVarNames, opts)
                          EXCEPT !.var_names = vn]
                 ELSE _multi_dataframe(reg, op, res, vn, opts)
          [] impl = "tidy_optimize" ->
                 \* (result, param_names, **kwargs): a second positional argument
                 \* or the keyword param_names binds param_names
                 IF given = "pos" /\ "param_names" \in keywords
                     THEN Outcome(Raises("TypeError", "arguments"), res, vn)
                 ELSE IF given # "pos" /\ "param_names" \notin keywords
                     THEN Outcome(Raises("TypeError", "arguments"), res, vn)
                 ELSE Outcome(tidy_optimize(res, keywords \ {"param_names"}), res, vn)
          [] OTHER ->
                 \* the other extractors take the result alone
                 IF given # "none" \/ opts # {}
                 THEN Outcome(Raises("TypeError", "arguments"), res, vn)
                 ELSE Outcome(CASE impl = "tidy_lmfit" -> tidy_lmfit(res)
                                [] impl = "glance_lmfit" -> glance_lmfit(res)
                                [] impl = "augment_lmfit" -> augment_lmfit(res)
                                [] impl = "glance_optimize" -> glance_optimize(res)
                                [] impl = "tidy_statsmodels" -> tidy_statsmodels(res)
                                [] impl = "glance_statsmodels" -> glance_statsmodels(res)
                                [] impl = "augment_statsmodels" -> augment_statsmodels(res),
                              res, vn)

\* what the call returns or raises
Call(reg, op, res, given, vn, opts) == Exec(reg, op, res, given, vn, opts).ret

(***************************************************************************)
(* The inputs of the model.                                                *)
(***************************************************************************)
\* lmfit ModelResult of a one-component model with two parameters
fitA == [type |-> "ModelResult", id |-> "fitA", nparams |-> 2, nvarys |-> 2,
         init_values |-> {0, 1}, has_model |-> TRUE, kws |-> <<>>, ndata |-> 2,
         components |-> <<"linear">>, independent_vars |-> 1]

\* lmfit ModelResult of a composite model with one parameter, fitted with a
\* keyword for the minimizer
fitB == [type |-> "ModelResult", id |-> "fitB", nparams |-> 1, nvarys |-> 1,
         init_values |-> {0}, has_model |-> TRUE, kws |-> <<"leastsq_ftol">>,
         ndata |-> 1, components |-> <<"g_", "l_">>, independent_vars |-> 1]

\* values of types no implementation is registered for
num == [type |-> "int", id |-> "num"]
arr == [type |-> "ndarray", id |-> "arr"]
flt == [type |-> "float", id |-> "flt"]

\* scipy OptimizeResult (a dict subclass: its attributes are its items) as
\* least_squares returns it: fun is the vector of residuals
lsq == [type |-> "OptimizeResult", id |-> "lsq",
        keys |-> <<"x", "cost", "fun", "status", "success">>,
        elems |-> <<arr, flt, arr, num, num>>, fun_size |-> 2]

\* scipy OptimizeResult as minimize returns it: fun is a scalar
nm == [type |-> "OptimizeResult", id |-> "nm",
       keys |-> <<"fun", "nit", "status", "success", "x">>,
       elems |-> <<flt, num, num, num, arr>>, fun_size |-> 1]

\* statsmodels RegressionResultsWrapper of the formula y ~ x
ols == [type |-> "RegressionResultsWrapper", id |-> "ols", endog_names |-> "y",
        exog_names |-> <<"Intercept", "x">>, nobs |-> 2]

Leaves == {fitA, fitB, lsq, nm, ols, num}

NameSet == {"function", "name"}

DictKeys == {"A", "B"}

Sequence(t, elems) == [type |-> t, keys |-> <<>>, elems |-> elems]

Mapping(t, keys, elems) == [type |-> t, keys |-> keys, elems |-> elems]

\* every list, tuple, dict and OrderedDict of at most n elements of S
ContainersOf(S, n) ==
    UNION {{Sequence(t, e) : t \in {"list", "tuple"}, e \in [1..k -> S]}
           \cup UNION {{Mapping(t, ks, e) : t \in {"dict", "OrderedDict"},
                                            e \in [1..k -> S]} :
                          ks \in {x \in [1..k -> DictKeys] :
                                    \A i, j \in 1..k : i # j => x[i] # x[j]}} :
           k \in 0..n}

\* the containers that occur as elements of a container
Inner ==
    {Sequence("list", <<fitA, fitB>>), Sequence("list", <<fitB, fitA>>),
     Sequence("list", <<fitA>>), Sequence("list", <<>>),
     Sequence("list", <<fitA, num>>),
     Mapping("dict", <<"A", "B">>, <<fitA, fitB>>),
     Mapping("OrderedDict", <<"A">>, <<fitA>>),
     Sequence("tuple", <<fitA>>)}

VarNamesValues ==
    {StrNames(x) : x \in NameSet \cup {""}}
    \cup {ListNames(l) : l \in SeqsUpTo(NameSet, MaxNames)}

(***************************************************************************)
(* The state machine: a call is prepared (Init), then made.                *)
(***************************************************************************)
\* a call on a single value: var_names left out, given by keyword, or given
\* as the second positional argument
InitLeaf ==
    /\ results \in Leaves
    /\ \/ var_names = [given |-> "none", value |-> DefaultVarNames]
       \/ \E g \in {"kw", "pos"}, v \in VarNamesValues :
             var_names = [given |-> g, value |-> v]
    /\ kwargs \in {{}, {"param_names"}}

\* a call on a list, tuple, dict or OrderedDict of single values
InitFlat ==
    /\ results \in ContainersOf(Leaves, MaxLen)
    /\ \/ var_names = [given |-> "none", value |-> DefaultVarNames]
       \/ \E v \in VarNamesValues : var_names = [given |-> "kw", value |-> v]
    /\ kwargs \in {{}, {"param_names"}}

\* a call on a list or dict with containers among its elements
InitNested ==
    /\ results \in {c \in ContainersOf(Inner \cup {fitA, num}, MaxLen) :
                      /\ c.type \in {"list", "dict"}
                      /\ \E i \in 1..Len(c.elems) : c.elems[i] \in Inner}
    /\ \/ var_names = [given |-> "none", value |-> DefaultVarNames]
       \/ \E v \in VarNamesValues : var_names = [given |-> "kw", value |-> v]
    /\ kwargs = {}

Init ==
    /\ InitLeaf \/ InitFlat \/ InitNested
    /\ registry = Registry
    /\ func = "none"
    /\ out = NotCalled
    /\ pc = "ready"

Invoke(op) ==
    /\ pc = "ready"
    /\ func' = op
    /\ LET o == Exec(registry, op, results, var_names.given, var_names.value, kwargs)
       IN  /\ out' = o.ret
           /\ results' = o.results
           /\ var_names' = [var_names EXCEPT !.value = o.var_names]
    /\ pc' = "done"
    \* **kwargs is a dict made for the call; nothing in the call registers
    \* an implementation
    /\ UNCHANGED <<kwargs, registry>>

Tidy == Invoke("tidy")

Glance == Invoke("glance")

Augment == Invoke("augment")

Next == Tidy \/ Glance \/ Augment

Spec == Init /\ [][Next]_vars

(***************************************************************************)
(* Vocabulary of the properties.                                           *)
(***************************************************************************)
Done == pc = "done"

Returned == Done /\ out.kind = "frame"

\* the names the call has for its nesting levels
GivenNames ==
    IF var_names.given = "none" THEN <<"key">>
    ELSE IF var_names.value.str THEN <<var_names.value.s>>
    ELSE var_names.value.list

\* the call has a name for the first nesting level (var_names is neither the
\* empty string nor the empty list)
HasName ==
    \/ var_names.given = "none"
    \/ var_names.value.str /\ var_names.value.s # ""
    \/ ~var_names.value.str /\ var_names.value.list # <<>>

Size == Len(results.elems)

\* the input is a list or a dict
IsListOrDictInput == results.type \in {"list", "dict"}

\* the input is a list or a dict whose elements are single values
IsFlatInput == IsListOrDictInput /\ \A i \in 1..Size : results.elems[i] \in Leaves

\* the value element i is stored under: its dict key, or its list position
KeyOf(i) == IF results.type = "dict" THEN StrCell(results.keys[i]) ELSE IntCell(i - 1)

\* what the same function gives for element i taken alone, with the same options
Alone(i) == Call(registry, func, results.elems[i], "none", DefaultVarNames, kwargs)

RECURSIVE SumSeq(_)
SumSeq(s) == IF s = <<>> THEN 0 ELSE Head(s) + SumSeq(Tail(s))

NRows(r) == Len(r.df.rows)

Cols(r) == Range(r.df.cols)

\* the rows of the returned table that carry key k in column name
RowsWithKey(name, k) == {j \in 1..NRows(out) : out.df.rows[j][name] = k}

(***************************************************************************)
(* C1 -- Row-count additivity.  For tidy, glance and augment, when the     *)
(* call on a list or dict of single results returns a table, each element  *)
(* taken alone returns a table too, the table has as many rows as the      *)
(* elements' tables together, and each element accounts for exactly as     *)
(* many rows (those stamped with its key) as its own table has: no row is  *)
(* dropped or duplicated.  Conversely the call returns a table whenever    *)
(* the container is not empty, a name is given and every element alone     *)
(* returns a table.                                                        *)
(***************************************************************************)
C1_RowCountAdditivity ==
    (Done /\ IsFlatInput) =>
        /\ Returned =>
              /\ \A i \in 1..Size : Alone(i).kind = "frame"
              /\ NRows(out) = SumSeq([i \in 1..Size |-> NRows(Alone(i))])
              /\ \A i \in 1..Size :
                    Cardinality(RowsWithKey(GivenNames[1], KeyOf(i))) = NRows(Alone(i))
        /\ (/\ Size > 0
            /\ HasName
            /\ \A i \in 1..Size : Alone(i).kind = "frame") => Returned

\* tidy on a list of two fits with two and one parameters returned three rows
C1_Witness ==
    /\ Returned /\ func = "tidy" /\ results.type = "list"
    /\ Size = 2 /\ NRows(Alone(1)) = 2 /\ NRows(Alone(2)) = 1
    /\ NRows(out) = 3

(***************************************************************************)
(* C2 -- Container column delta, as stated: for a list or dict of N single *)
(* results of one result type, the columns of the returned table are the   *)
(* columns of the table of any single element plus exactly one extra       *)
(* column, the provenance column, which holds exactly N distinct values.   *)
(* Stated for the default name 'key', which no extractor uses as a column. *)
(***************************************************************************)
IsUniformInput ==
    /\ IsFlatInput /\ Size >= 1
    /\ \A i, j \in 1..Size : results.elems[i].type = results.elems[j].type

KeyValues == Range(Column(out.df, GivenNames[1]))

C2_ColumnDeltaAsStated ==
    (Returned /\ IsUniformInput /\ var_names.given = "none") =>
        /\ \A i \in 1..Size :
              /\ Cols(out) = Cols(Alone(i)) \cup {GivenNames[1]}
              /\ Cardinality(Cols(out)) = Cardinality(Cols(Alone(i))) + 1
        /\ Cardinality(KeyValues) = Size

(***************************************************************************)
(* C2 (amended) -- the columns of the returned table are the union of the  *)
(* columns of the elements' tables plus the provenance column; they are    *)
(* the columns of one element plus exactly one extra column exactly when   *)
(* that element has every column the other elements have and the           *)
(* provenance name is not among them.  The provenance column holds exactly *)
(* N distinct values, the keys or positions of the elements.               *)
(***************************************************************************)
ElementCols == UNION {Cols(Alone(i)) : i \in 1..Size}

C2_ColumnUnion ==
    (Returned /\ IsUniformInput) =>
        /\ Cols(out) = ElementCols \cup {GivenNames[1]}
        /\ \A i \in 1..Size :
              (/\ Cols(out) = Cols(Alone(i)) \cup {GivenNames[1]}
               /\ Cardinality(Cols(out)) = Cardinality(Cols(Alone(i))) + 1)
              <=> (Cols(Alone(i)) = ElementCols /\ GivenNames[1] \notin ElementCols)
        /\ KeyValues = {KeyOf(i) : i \in 1..Size}
        /\ Cardinality(KeyValues) = Size

\* tidy on a dict of two lmfit fits, named "function": nine columns, two keys
C2_Witness ==
    /\ Returned /\ IsUniformInput /\ func = "tidy" /\ results.type = "dict"
    /\ Size = 2 /\ GivenNames = <<"function">>
    /\ Cardinality(Cols(out)) = Cardinality(Cols(Alone(1))) + 1
    /\ Cardinality(KeyValues) = 2

(***************************************************************************)
(* C3 -- Order preservation.  The table returned for a list or a dict is   *)
(* the concatenation of the elements' sub-tables in list order, or in the  *)
(* dict's insertion order: the provenance column reads the key of the      *)
(* first element once per row of its sub-table, then the key of the second *)
(* element, and so on (0,...,0,1,...,1,... for a list), and within each    *)
(* block the rows are the rows of the sub-table in their own order.        *)
(***************************************************************************)
\* the sub-table of element i: a list or dict element is given the names that
\* are left after the first, any other element is taken alone
ElemTable(i) ==
    IF results.elems[i].type \in {"list", "dict"}
    THEN Call(registry, func, results.elems[i], "kw", ListNames(Tail(GivenNames)), kwargs)
    ELSE Alone(i)

C3_OrderPreserved ==
    (Returned /\ IsListOrDictInput) =>
        LET sub == Tuple([i \in 1..Size |-> ElemTable(i).df])
            \* <<i, j>> for every row j of every sub-table i, in order
            origin == Flatten([i \in 1..Size |-> [j \in 1..Len(sub[i].rows) |-> <<i, j>>]])
        IN  /\ NRows(out) = Len(origin)
            /\ \A k \in 1..Len(origin) :
                  LET i == origin[k][1]
                      j == origin[k][2]
                  IN  /\ out.df.rows[k][GivenNames[1]] = KeyOf(i)
                      /\ \A c \in Range(sub[i].cols) \ {GivenNames[1]} :
                            out.df.rows[k][c] = sub[i].rows[j][c]

\* tidy on a list of a two-parameter and a one-parameter fit: key reads 0, 0, 1
C3_Witness ==
    /\ Returned /\ func = "tidy" /\ results.type = "list" /\ var_names.given = "none"
    /\ Column(out.df, "key") = <<IntCell(0), IntCell(0), IntCell(1)>>
    /\ out.df.rows[3]["value"] = ValCell(results.elems[2].id, "value", 0)

(***************************************************************************)
(* C4 -- Two-level nesting.  For a dict of lists of single results and a   *)
(* names list [n1, n2] of two different names, the returned table has the  *)
(* extractor's columns and exactly the two provenance columns n1 and n2;   *)
(* it has one block of rows per leaf, in dict order then list order, and   *)
(* every row carries in n1 the dict key and in n2 the list position of the *)
(* leaf it came from, so the pair (n1, n2) tells the leaves apart.         *)
(***************************************************************************)
IsDictOfLists ==
    /\ results.type = "dict" /\ Size >= 1
    /\ \A i \in 1..Size :
          /\ results.elems[i].type = "list"
          /\ \A j \in 1..Len(results.elems[i].elems) : results.elems[i].elems[j] \in Leaves

HasTwoNames ==
    /\ var_names.given # "none" /\ ~var_names.value.str
    /\ Len(var_names.value.list) = 2
    /\ var_names.value.list[1] # var_names.value.list[2]

\* what the same function gives for the leaf at position j of the list under key i
LeafTable(i, j) ==
    Call(registry, func, results.elems[i].elems[j], "none", DefaultVarNames, kwargs)

\* <<i, j, r>> for every row r of every leaf (i, j), in dict order then list order
LeafRows ==
    Flatten([i \in 1..Size |->
        Flatten([j \in 1..Len(results.elems[i].elems) |->
            [r \in 1..NRows(LeafTable(i, j)) |-> <<i, j, r>>]])])

C4_TwoLevelNesting ==
    (Returned /\ IsDictOfLists /\ HasTwoNames) =>
        LET n1 == GivenNames[1]
            n2 == GivenNames[2]
            row(k) == out.df.rows[k]
        IN  /\ NRows(out) = Len(LeafRows)
            /\ {n1, n2} \subseteq Cols(out)
            /\ \A c \in Cols(out) \ {n1, n2} :
                  \E k \in 1..Len(LeafRows) :
                      c \in Cols(LeafTable(LeafRows[k][1], LeafRows[k][2]))
            /\ \A k \in 1..Len(LeafRows) :
                  LET i == LeafRows[k][1]
                      j == LeafRows[k][2]
                      r == LeafRows[k][3]
                  IN  /\ row(k)[n1] = StrCell(results.keys[i])
                      /\ row(k)[n2] = IntCell(j - 1)
                      /\ \A c \in Cols(LeafTable(i, j)) \ {n1, n2} :
                            row(k)[c] = LeafTable(i, j).df.rows[r][c]
            /\ \A k, m \in 1..Len(LeafRows) :
                  (row(k)[n1] = row(m)[n1] /\ row(k)[n2] = row(m)[n2])
                  <=> (LeafRows[k][1] = LeafRows[m][1] /\ LeafRows[k][2] = LeafRows[m][2])

\* glance on {'A': [fitA, fitB], 'B': [fitB, fitA]} with ['function', 'name']:
\* four rows, function = A, A, B, B and name = 0, 1, 0, 1
C4_Witness ==
    /\ Returned /\ func = "glance" /\ IsDictOfLists
    /\ GivenNames = <<"function", "name">>
    /\ Column(out.df, "function") = <<StrCell("A"), StrCell("A"), StrCell("B"), StrCell("B")>>
    /\ Column(out.df, "name") = <<IntCell(0), IntCell(1), IntCell(0), IntCell(1)>>

(***************************************************************************)
(* C5 -- Provenance arity error.  A call on a list or dict raises the      *)
(* "var_names is too short" ValueError and returns no table when it has no *)
(* name for the first level, and when it has a single name (given, or the  *)
(* default 'key') and reaches an element that is itself a list or a dict:  *)
(* the elements before it having returned their tables.                    *)
(***************************************************************************)
TooShort == Raises("ValueError", "var_names")

C5_NamesTooShort ==
    (Done /\ IsListOrDictInput) =>
        /\ ~HasName => out = TooShort
        /\ (/\ HasName /\ Len(GivenNames) = 1
            /\ \E i \in 1..Size :
                  /\ results.elems[i].type \in {"list", "dict"}
                  /\ \A m \in 1..(i - 1) : ElemTable(m).kind = "frame")
           => out = TooShort

\* glance on a dict of lists with the default var_names, and on a list whose
\* second element is a list after a fit that was extracted
C5_Witness ==
    /\ Done /\ out = TooShort /\ HasName /\ Len(GivenNames) = 1 /\ Size = 2
    /\ results.elems[2].type = "list" /\ results.elems[2].elems # <<>>
    /\ results.elems[1] \in Leaves /\ Alone(1).kind = "frame"

(***************************************************************************)
(* C6 -- Unsupported type.  For tidy, glance and augment, a call on a      *)
(* single value whose type has no extractor registered for the function    *)
(* (an OptimizeResult under augment included) raises NotImplementedError   *)
(* naming the type of that value.                                          *)
(***************************************************************************)
C6_UnsupportedTypeNamed ==
    (Done /\ results \in Leaves /\ results.type \notin DOMAIN registry[func]) =>
        out = Raises("NotImplementedError", results.type)

(***************************************************************************)
(* C7 -- Keyed-collection provenance domain, as stated: for a dict the     *)
(* provenance column is categorical with the distinct keys in order of     *)
(* first appearance (the dict's insertion order) as categories; for a list *)
(* the column is not categorical.                                          *)
(***************************************************************************)
IsCategorical(c) == c \in DOMAIN out.df.cats

InsertionOrder == [i \in 1..Size |-> StrCell(results.keys[i])]

C7_CategoriesInInsertionOrder ==
    (Returned /\ IsListOrDictInput) =>
        IF results.type = "dict"
        THEN IsCategorical(GivenNames[1]) /\ out.df.cats[GivenNames[1]] = InsertionOrder
        ELSE ~IsCategorical(GivenNames[1])

(***************************************************************************)
(* C7 (amended) -- for a dict (with keys that can be ordered, as strings   *)
(* can) the provenance column is an ordered categorical whose categories   *)
(* are the distinct keys in ascending order, which is the insertion order  *)
(* only when the keys were inserted in ascending order; for a list the     *)
(* column is left as plain positions.                                      *)
(***************************************************************************)
C7_CategoriesSorted ==
    (Returned /\ IsListOrDictInput) =>
        IF results.type = "dict"
        THEN /\ IsCategorical(GivenNames[1])
             /\ LET cats == out.df.cats[GivenNames[1]]
                IN  /\ Len(cats) = Size
                    /\ Range(cats) = Range(InsertionOrder)
                    /\ \A i, j \in 1..Len(cats) :
                          i < j => StrRank(cats[i].s) < StrRank(cats[j].s)
                    /\ (cats = InsertionOrder) <=>
                          \A i, j \in 1..Size :
                              i < j => StrRank(results.keys[i]) < StrRank(results.keys[j])
        ELSE /\ ~IsCategorical(GivenNames[1])
             /\ \A k \in 1..NRows(out) : out.df.rows[k][GivenNames[1]].k = "int"

\* glance on {'B': ..., 'A': ...}: the categories are A, B
C7_Witness ==
    /\ Returned /\ results.type = "dict" /\ results.keys = <<"B", "A">>
    /\ out.df.cats[GivenNames[1]] = <<StrCell("A"), StrCell("B")>>
    /\ Column(out.df, GivenNames[1])[1] = StrCell("B")

(***************************************************************************)
(* C8 -- Leaf before container.  An OptimizeResult (a dict subclass) given *)
(* to tidy or glance, the functions it has an extractor for, goes to that  *)
(* extractor and is never iterated: alone, the call gives what the         *)
(* extractor gives (its table, or the error the extractor raises for the   *)
(* arguments it gets); as an element of a list or dict, its block of the   *)
(* returned table is the extractor's row.                                  *)
(***************************************************************************)
IsOptimizeResult(x) == x.type = "OptimizeResult"

C8_LeafBeforeContainer ==
    Done =>
        /\ (IsOptimizeResult(results) /\ func = "glance") =>
              out = IF var_names.given = "none" /\ kwargs = {}
                    THEN glance_optimize(results)
                    ELSE Raises("TypeError", "arguments")
        /\ (IsOptimizeResult(results) /\ func = "tidy") =>
              out \in {Raises("ValueError", "param_names"), Raises("TypeError", "arguments")}
        /\ (/\ IsFlatInput /\ Size >= 1 /\ HasName /\ func = "glance" /\ kwargs = {}
            /\ \A i \in 1..Size : IsOptimizeResult(results.elems[i])) =>
              /\ Returned /\ NRows(out) = Size
              /\ \A i \in 1..Size :
                    LET own == glance_optimize(results.elems[i]).df
                    IN  \A c \in Range(own.cols) \ {GivenNames[1]} :
                            out.df.rows[i][c] = own.rows[1][c]
        /\ (/\ IsFlatInput /\ Size >= 1 /\ HasName /\ func = "tidy"
            /\ IsOptimizeResult(results.elems[1])) =>
              out \in {Raises("ValueError", "param_names"), Raises("TypeError", "arguments")}

\* glance on a list of two OptimizeResults: one row each, with its own cost
C8_Witness ==
    /\ Returned /\ func = "glance" /\ results.type = "list" /\ Size = 2
    /\ IsOptimizeResult(results.elems[1]) /\ IsOptimizeResult(results.elems[2])
    /\ "cost" \in Range(results.elems[1].keys)
    /\ out.df.rows[1]["cost"] = ValCell(results.elems[1].id, "cost", 0)

(***************************************************************************)
(* C9 -- Uniform container treatment.  A tuple or an OrderedDict, as the   *)
(* input or as an element of a list or dict, is treated like the list or   *)
(* dict of the same elements: same table, with the provenance column of a  *)
(* nested one named by the caller's next name.                             *)
(***************************************************************************)
AsBuiltin(x) ==
    IF x.type = "tuple" THEN [x EXCEPT !.type = "list"]
    ELSE IF x.type = "OrderedDict" THEN [x EXCEPT !.type = "dict"]
    ELSE x

AsBuiltinTree(x) ==
    IF x.type \in {"list", "tuple", "dict", "OrderedDict"}
    THEN [AsBuiltin(x) EXCEPT !.elems = [i \in 1..Len(x.elems) |-> AsBuiltin(x.elems[i])]]
    ELSE x

LikeBuiltin ==
    Call(registry, func, AsBuiltinTree(results), var_names.given, var_names.value, kwargs)

C9_UniformContainers ==
    (/\ Done /\ results.type \in {"list", "tuple", "dict", "OrderedDict"}
     /\ LikeBuiltin.kind = "frame") =>
        out = LikeBuiltin

(***************************************************************************)
(* C10 -- A single supported result ignores var_names: when the call       *)
(* without var_names returns a table, the call with var_names (any string  *)
(* or list of strings) returns the same table.                             *)
(***************************************************************************)
WithoutVarNames == Call(registry, func, results, "none", DefaultVarNames, kwargs)

C10_LeafIgnoresNames ==
    (Done /\ results \in Leaves /\ WithoutVarNames.kind = "frame") =>
        out = WithoutVarNames

(***************************************************************************)
(* C11 -- Surplus names are tolerated inside containers.  Take a list or   *)
(* dict whose elements are single results that yield a table alone, or     *)
(* non-empty lists/dicts of such results, called with a list of names      *)
(* that covers every nesting level and is longer than the depth of some    *)
(* path.  The call returns a table; a name that is no extractor column is  *)
(* a column of the table exactly when it names a level that some path      *)
(* traverses; and the rows of a top-level single result are empty (NaN) in *)
(* the columns of deeper levels.                                           *)
(***************************************************************************)
\* x alone yields a table under the function called
YieldsTable(x) == Call(registry, func, x, "none", DefaultVarNames, kwargs).kind = "frame"

\* element i is a list or dict (it is recursed into with the names left)
IsInnerElem(i) == results.elems[i].type \in {"list", "dict"}

\* every element is a single result that yields a table, or a non-empty list
\* or dict of such results
IsTreeOfTables ==
    /\ IsListOrDictInput /\ Size > 0
    /\ \A i \in 1..Size :
          IF IsInnerElem(i)
          THEN /\ Len(results.elems[i].elems) > 0
               /\ \A j \in 1..Len(results.elems[i].elems) :
                     /\ results.elems[i].elems[j].type \notin {"list", "dict"}
                     /\ YieldsTable(results.elems[i].elems[j])
          ELSE YieldsTable(results.elems[i])

\* the deepest nesting level of the input: 1, or 2 when an element is a list or dict
Depth == IF \E i \in 1..Size : IsInnerElem(i) THEN 2 ELSE 1

\* the columns the extractors give for the single results of the input
LeafCols ==
    UNION {IF IsInnerElem(i)
           THEN UNION {Cols(LeafTable(i, j)) : j \in 1..Len(results.elems[i].elems)}
           ELSE Cols(Alone(i)) : i \in 1..Size}

\* var_names is a list with a name for every level and more names than the
\* levels of some path
HasSurplusNames ==
    /\ var_names.given = "kw" /\ ~var_names.value.str
    /\ Len(GivenNames) >= Depth
    /\ \/ Len(GivenNames) > Depth
       \/ \E i \in 1..Size : ~IsInnerElem(i) /\ Len(GivenNames) > 1

C11_SurplusNamesTolerated ==
    (Done /\ IsTreeOfTables /\ HasSurplusNames) =>
        /\ out.kind = "frame"
        /\ \A l \in 1..Len(GivenNames) :
              GivenNames[l] \notin LeafCols =>
                  (GivenNames[l] \in Cols(out)
                      <=> \E m \in 1..Depth : GivenNames[m] = GivenNames[l])
        /\ \A i \in 1..Size, l \in 2..Len(GivenNames) :
              (/\ ~IsInnerElem(i)
               /\ GivenNames[l] \in Cols(out) \ (Cols(Alone(i)) \cup {GivenNames[1]})) =>
                  \A k \in RowsWithKey(GivenNames[1], KeyOf(i)) :
                      out.df.rows[k][GivenNames[l]] = NaN

\* glance on [fitA, [fitA, fitB]] with ['function', 'name']: three rows, the
\* row of the first element is empty in the column name
C11_Witness ==
    /\ Returned /\ func = "glance"
    /\ results = Sequence("list", <<fitA, Sequence("list", <<fitA, fitB>>)>>)
    /\ var_names = [given |-> "kw", value |-> ListNames(<<"function", "name">>)]
    /\ NRows(out) = 3
    /\ Column(out.df, "function") = <<IntCell(0), IntCell(1), IntCell(1)>>
    /\ Column(out.df, "name") = <<NaN, IntCell(0), IntCell(1)>>

(***************************************************************************)
(* C12 -- Required option for scipy results.  tidy on an OptimizeResult,   *)
(* alone or as the elements of a list or dict, raises the "param_names is  *)
(* required" ValueError exactly when param_names is not among the options; *)
(* with param_names the call returns a table with the columns name and     *)
(* value and at least one row.                                             *)
(***************************************************************************)
\* the input is an OptimizeResult, or a non-empty list or dict of them
IsOptimizeInput ==
    \/ IsOptimizeResult(results)
    \/ /\ IsListOrDictInput /\ Size > 0
       /\ \A i \in 1..Size : IsOptimizeResult(results.elems[i])

MissingParamNames == Raises("ValueError", "param_names")

C12_ParamNamesRequired ==
    (Done /\ func = "tidy" /\ IsOptimizeInput /\ var_names.given = "none") =>
        /\ out = MissingParamNames <=> "param_names" \notin kwargs
        /\ "param_names" \in kwargs =>
              /\ Returned
              /\ {"name", "value"} \subseteq Cols(out)
              /\ NRows(out) >= 1

(***************************************************************************)
(* C13 -- Every registered tidy extractor yields a table.  For a single    *)
(* result of a type tidy has an extractor for (lmfit ModelResult or        *)
(* MinimizerResult, scipy OptimizeResult, statsmodels                      *)
(* RegressionResultsWrapper), tidy(result) raises NotImplementedError or   *)
(* returns a table with at least one row and one column.                   *)
(***************************************************************************)
HasTidyExtractor(x) ==
    x.type \in {"ModelResult", "MinimizerResult", "OptimizeResult",
                "RegressionResultsWrapper"}

C13_TidyYieldsTable ==
    (/\ Done /\ func = "tidy" /\ results \in Leaves /\ HasTidyExtractor(results)
     /\ var_names.given = "none" /\ kwargs = {}) =>
        \/ out.kind = "raise" /\ out.exc = "NotImplementedError"
        \/ Returned /\ NRows(out) >= 1 /\ Cols(out) # {}

(***************************************************************************)
(* C14 -- Summary columns for scipy results.  glance on an OptimizeResult  *)
(* returns one row whose columns are exactly those of success, cost,       *)
(* optimality, nfev, njev, nit, status, message that the result has, plus  *)
(* fun when it is a scalar, each cell holding the attribute's value; a     *)
(* result that has nit and status gets the columns nit and status.         *)
(***************************************************************************)
SummaryAttrs ==
    {"success", "cost", "optimality", "nfev", "njev", "nit", "status", "message"}

C14_SummaryColumns ==
    (/\ Done /\ func = "glance" /\ IsOptimizeResult(results)
     /\ var_names.given = "none" /\ kwargs = {}) =>
        /\ Returned /\ NRows(out) = 1
        /\ Cols(out) = (SummaryAttrs \cap Range(results.keys))
                          \cup (IF "fun" \in Range(results.keys) /\ results.fun_size = 1
                                THEN {"fun"} ELSE {})
        /\ \A c \in Cols(out) : out.df.rows[1][c] = ValCell(results.id, c, 0)

(***************************************************************************)
(* C15 -- Empty container.  With a name for the first level, a call on an  *)
(* empty list or dict, or on a list or dict with an empty list or dict     *)
(* among its elements, raises and returns no table.  The error is the      *)
(* ValueError of the concatenation of zero tables when the input itself is *)
(* empty, and when the empty element has a name left for its level and no  *)
(* element before it fails.                                                *)
(***************************************************************************)
NothingToConcatenate == Raises("ValueError", "concat")

\* element i is an empty list or dict
IsEmptyElem(i) == IsInnerElem(i) /\ Len(results.elems[i].elems) = 0

\* as stated: whatever names are left, the error is the one of the
\* concatenation of zero tables (the other elements are single results that
\* yield a table)
C15_EmptyRaisesConcatError ==
    (/\ Done /\ IsListOrDictInput /\ HasName
     /\ \A i \in 1..Size : IsEmptyElem(i) \/ (~IsInnerElem(i) /\ YieldsTable(results.elems[i]))
     /\ Size = 0 \/ \E i \in 1..Size : IsEmptyElem(i)) =>
        out = NothingToConcatenate

C15_EmptyContainerFails ==
    (Done /\ IsListOrDictInput /\ HasName) =>
        /\ Size = 0 => out = NothingToConcatenate
        /\ \A i \in 1..Size :
              IsEmptyElem(i) =>
                  /\ out.kind = "raise"
                  /\ (/\ Len(GivenNames) >= 2
                      /\ \A m \in 1..(i - 1) : ElemTable(m).kind = "frame") =>
                          out = NothingToConcatenate

\* glance on [fitA, []] with ['function', 'name']: the concatenation of the
\* second element's zero tables raises
C15_Witness ==
    /\ Done /\ func = "glance"
    /\ results = Sequence("list", <<fitA, Sequence("list", <<>>)>>)
    /\ var_names = [given |-> "kw", value |-> ListNames(<<"function", "name">>)]
    /\ out = NothingToConcatenate

(***************************************************************************)
(* C16 -- No partial result.  When a list or dict holds, at the top level  *)
(* or inside an element that is a list or dict, a value of a type without  *)
(* an extractor for the function called, the call raises and returns no    *)
(* table, wherever the value stands.  The error is the                     *)
(* NotImplementedError naming the value's type when nothing fails before   *)
(* the value is reached: every element before it yields its sub-table, and *)
(* a name is left for the level of the list or dict that holds it.         *)
(***************************************************************************)
\* singledispatch finds only the default implementation for x
Unsupported(x) == Dispatch(registry, func, x.type) \in {"tidy", "glance", "augment"}

Unimplemented(x) == Raises("NotImplementedError", x.type)

\* element i is a list or dict that holds an unsupported value
HoldsUnsupported(i) ==
    IsInnerElem(i) /\ \E j \in 1..Len(results.elems[i].elems) :
                          Unsupported(results.elems[i].elems[j])

HasUnsupportedLeaf ==
    \E i \in 1..Size : Unsupported(results.elems[i]) \/ HoldsUnsupported(i)

UnsupportedOrTable(x) == Unsupported(x) \/ YieldsTable(x)

SubTableBefore(op, i) ==
    IF IsInnerElem(i)
    THEN Call(registry, op, results.elems[i], "kw", ListNames(Tail(GivenNames)), kwargs)
    ELSE Call(registry, op, results.elems[i], "none", DefaultVarNames, kwargs)

\* a step that calls op on a list or dict each element of which yields its
\* sub-table returns r, a table where the rows of every list or dict element
\* carry a key in the column of the second name
SiblingsGetSameNames(op, r) ==
    (/\ IsListOrDictInput /\ HasName /\ Size > 0
     /\ \A i \in 1..Size : SubTableBefore(op, i).kind = "frame") =>
        /\ r.kind = "frame"
        /\ \A i \in 1..Size :
              (/\ IsInnerElem(i) /\ Len(GivenNames) >= 2
               /\ GivenNames[2] # GivenNames[1]) =>
                  \A k \in 1..Len(r.df.rows) :
                      r.df.rows[k][GivenNames[1]] = KeyOf(i) =>
                          r.df.rows[k][GivenNames[2]].k \in {"int", "str"}

C17_InputsUnchanged ==
    [][/\ results' = results
       /\ var_names' = var_names
       /\ registry' = registry
       /\ SiblingsGetSameNames(func', out')]_vars

\* augment on [[fitA], [fitA, fitB]] with ['function', 'name'] returns a
\* table: both inner lists were given the name 'name'
C17_Witness ==
    /\ Returned /\ func = "augment"
    /\ results = Sequence("list", <<Sequence("list", <<fitA>>),
                                    Sequence("list", <<fitA, fitB>>)>>)
    /\ var_names = [given |-> "kw", value |-> ListNames(<<"function", "name">>)]
    /\ Column(out.df, "function") = <<IntCell(0), IntCell(0), IntCell(1), IntCell(1), IntCell(1)>>
    /\ Column(out.df, "name") = <<IntCell(0), IntCell(0), IntCell(0), IntCell(0), IntCell(1)>>

(***************************************************************************)
(* C18 -- Stamping preserves extracted data.  When the call on a list or   *)
(* dict returns a table, every column of every element's sub-table --      *)
(* extractor columns and inner provenance columns alike, whatever the      *)
(* names given -- is in the table with the cells it has in the sub-table,  *)
(* in the rows of that element.                                            *)
(***************************************************************************)
C18_StampingPreservesData ==
    (Returned /\ IsListOrDictInput) =>
        LET sub == Tuple([i \in 1..Size |-> ElemTable(i).df])
            origin == Flatten([i \in 1..Size |-> [j \in 1..Len(sub[i].rows) |-> <<i, j>>]])
        IN  /\ NRows(out) = Len(origin)
            /\ \A k \in 1..Len(origin) :
                  LET i == origin[k][1]
                      j == origin[k][2]
                  IN  \A c \in Range(sub[i].cols) :
                          /\ c \in Cols(out)
                          /\ out.df.rows[k][c] = sub[i].rows[j][c]

====
